---- MODULE Spec2Model ----
(***************************************************************************)
(* A model of forte's BaseIndex (src/forte/data/index.py): the entry       *)
(* index, the type index with its lazily built subtype cache, and the      *)
(* switch-gated link and group indexes.                                    *)
(*                                                                         *)
(* Every method is an operator from the object's state (a record `self`)   *)
(* to an outcome [self, err, ret]: the state the call leaves behind, the   *)
(* exception it raised ("none" when it returned) and the value returned.   *)
(* Python dictionaries are functions whose DOMAIN is the set of keys, so   *)
(* that a defaultdict's creation of a key on lookup is visible.            *)
(***************************************************************************)
EXTENDS Integers, Sequences, FiniteSets, TLC

VARIABLES
    entry_index,         \* self._entry_index: tid -> entry
    type_index,          \* self._type_index: defaultdict type -> set of tid
    subtype_index,       \* self._subtype_index: type -> cached set of tid
    group_index,         \* self._group_index: defaultdict key -> set of tid
    link_index,          \* self._link_index: name -> defaultdict key -> set
    group_index_switch,  \* self._group_index_switch
    link_index_switch,   \* self._link_index_switch
    last,                \* the call made last: [op, arg, err, ret]
    live,                \* history: entries inserted and not removed since
    gone,                \* history: entries removed and not inserted since
    held,                \* the set object a caller kept from a query
    elements,            \* the store's collections: type_id -> list of entries
    tid_counter,         \* the store's tid allocator: the tid issued last
    issued,              \* history: the tids the add_* calls returned
    instance2index,      \* Alphabet.instance2index: instance -> index
    instances,           \* Alphabet.instances: list of instances
    keep_growing,        \* Alphabet.keep_growing
    ignore_case_in_query,\* Alphabet.ignore_case_in_query
    made                 \* history: how the Alphabet was constructed, and
                         \* whether open() or close() was called last

vars == <<entry_index, type_index, subtype_index, group_index, link_index,
          group_index_switch, link_index_switch, last, live, gone, held,
          elements, tid_counter, issued,
          instance2index, instances, keep_growing, ignore_case_in_query,
          made>>

---------------------------------------------------------------------------
\* Bounds of the model.

\* Entry tids are 1..MaxTid.
MaxTid == 3
\* Longest list of entries handed to update_basic_index.
MaxEntries == 2
\* Index keys of link endpoints and group members are 1..MaxKey.
MaxKey == 2
\* Link tids are 1..MaxLinkTid.
MaxLinkTid == 2
\* Longest list of links handed to build_link_index / update_link_index.
MaxLinks == 2
\* Group tids are 1..MaxGroupTid.
MaxGroupTid == 2
\* Longest list of groups handed to build_group_index / update_group_index.
MaxGroups == 1

---------------------------------------------------------------------------
\* The entry classes and their hierarchy (Sub derives from Base).

Types == {"Base", "Sub"}

\* issubclass(a, b) for the classes above.
issubclass(a, b) == a = b \/ (a = "Sub" /\ b = "Base")

Tids == 1..MaxTid

\* type(entry) of the entry whose tid is t: an entry object has one tid and
\* one class, and tids are unique per entry.
TypeOfTid(t) == IF t % 2 = 1 THEN "Base" ELSE "Sub"

Entries == {[tid |-> t, type |-> TypeOfTid(t)] : t \in Tids}

\* The lists of at most n elements of S.
ListsOf(S, n) == UNION {[1..k -> S] : k \in 0..n}

\* The elements of a list.
Range(list) == {list[i] : i \in DOMAIN list}

EntryLists == ListsOf(Entries, MaxEntries)

Keys == 1..MaxKey

\* Entry.index_key: the key under which an entry is looked up, its tid.
index_key(entry) == entry.tid

\* A link: its tid, and the index keys of the entries that get_parent() and
\* get_child() return. A link joins two different entries.
Links == {l \in [tid : 1..MaxLinkTid, parent : Keys, child : Keys] :
             l.parent # l.child}

LinkLists == ListsOf(Links, MaxLinks)

\* A group: its tid and its members (the keys that `group.members` yields).
Groups == [tid : 1..MaxGroupTid, members : SUBSET Keys]

GroupLists == ListsOf(Groups, MaxGroups)

---------------------------------------------------------------------------
\* Python dictionaries.

EmptyDict == [k \in {} |-> {}]

\* d[k] = v
DictSet(d, k, v) == [x \in (DOMAIN d) \cup {k} |-> IF x = k THEN v ELSE d[x]]

\* d.pop(k, None)
DictPop(d, k) == [x \in (DOMAIN d) \ {k} |-> d[x]]

\* A defaultdict(set) after the lookup d[k]: the key exists afterwards.
DefaultGet(d, k) == IF k \in DOMAIN d THEN d ELSE DictSet(d, k, {})

\* d[k].add(v) on a defaultdict(set)
DefaultAdd(d, k, v) == DictSet(d, k, DefaultGet(d, k)[k] \cup {v})

Outcome(self, err, ret) == [self |-> self, err |-> err, ret |-> ret]

Returns(self, ret) == Outcome(self, "none", ret)

Raises(self, err) == Outcome(self, err, {})

---------------------------------------------------------------------------
\* BaseIndex.__init__

BaseIndex_init ==
    [entry_index        |-> EmptyDict,
     type_index         |-> EmptyDict,
     subtype_index      |-> EmptyDict,
     group_index        |-> EmptyDict,
     link_index         |-> EmptyDict,
     group_index_switch |-> FALSE,
     link_index_switch  |-> FALSE]

\* The loop body with the tid filed under the base class of the entry.
update_basic_index_entry_base_bucket(self, entry) ==
    [self EXCEPT
        !.entry_index   = DictSet(@, entry.tid, entry),
        !.type_index    = DefaultAdd(@, "Base", entry.tid),
        !.subtype_index = DictPop(@, entry.type)]

\* The body of update_basic_index's loop, for one entry.
update_basic_index_entry(self, entry) ==
    [self EXCEPT
        !.entry_index   = DictSet(@, entry.tid, entry),
        !.type_index    = DefaultAdd(@, entry.type, entry.tid),
        !.subtype_index = DictPop(@, entry.type)]

RECURSIVE update_basic_index_loop(_, _)
update_basic_index_loop(self, entries) ==
    IF entries = <<>> THEN self
    ELSE update_basic_index_loop(
             update_basic_index_entry(self, Head(entries)), Tail(entries))

update_basic_index(self, entries) ==
    Returns(update_basic_index_loop(self, entries), {})

\* get_entry as a lookup with a default instead of self._entry_index[tid].
get_entry_with_default(self, tid) ==
    IF tid \in DOMAIN self.entry_index
    THEN Returns(self, {self.entry_index[tid]})
    ELSE Returns(self, {})

get_entry(self, tid) ==
    IF tid \in DOMAIN self.entry_index
    THEN Returns(self, {self.entry_index[tid]})
    ELSE Raises(self, "KeyError")

indexed_types(self) == Returns(self, DOMAIN self.type_index)

query_by_type(self, t) ==
    LET ti == DefaultGet(self.type_index, t)
    IN  Returns([self EXCEPT !.type_index = ti], ti[t])

\* The scan of query_by_type_subtype over iter_type_index().
subclass_index(self, t) ==
    UNION {self.type_index[k] :
              k \in {x \in DOMAIN self.type_index : issubclass(x, t)}}

query_by_type_subtype(self, t) ==
    IF t \in DOMAIN self.subtype_index
    THEN Returns(self, self.subtype_index[t])
    ELSE LET found == subclass_index(self, t)
         IN  Returns([self EXCEPT !.subtype_index = DictSet(@, t, found)],
                     found)

turn_link_index_switch(self, on) ==
    Returns([self EXCEPT !.link_index_switch = on], {})

turn_group_index_switch(self, on) ==
    Returns([self EXCEPT !.group_index_switch = on], {})

\* remove_entry that also drops the cached subtype result of the entry's
\* class, as update_basic_index does.
remove_entry_invalidates_cache(self, entry) ==
    IF entry.tid \notin DOMAIN self.entry_index
    THEN Raises(self, "KeyError")
    ELSE LET popped == [self EXCEPT
                           !.entry_index = DictPop(@, entry.tid),
                           !.type_index  = DefaultGet(@, entry.type)]
         IN  IF entry.tid \notin popped.type_index[entry.type]
             THEN Raises(popped, "KeyError")
             ELSE LET removed == [popped EXCEPT
                                     !.type_index[entry.type] =
                                         @ \ {entry.tid},
                                     !.subtype_index =
                                         DictPop(@, entry.type)]
                      g == turn_group_index_switch(removed, FALSE).self
                  IN  Returns(turn_link_index_switch(g, FALSE).self, {})

\* remove_entry with the group index left switched on.
remove_entry_link_switch_only(self, entry) ==
    IF entry.tid \notin DOMAIN self.entry_index
    THEN Raises(self, "KeyError")
    ELSE LET popped == [self EXCEPT
                           !.entry_index = DictPop(@, entry.tid),
                           !.type_index  = DefaultGet(@, entry.type)]
         IN  IF entry.tid \notin popped.type_index[entry.type]
             THEN Raises(popped, "KeyError")
             ELSE LET removed == [popped EXCEPT
                                     !.type_index[entry.type] =
                                         @ \ {entry.tid}]
                  IN  Returns(turn_link_index_switch(removed, FALSE).self,
                              {})

\* remove_entry with the removal from the type bucket left out.
remove_entry_keeps_bucket(self, entry) ==
    IF entry.tid \notin DOMAIN self.entry_index
    THEN Raises(self, "KeyError")
    ELSE LET popped == [self EXCEPT !.entry_index = DictPop(@, entry.tid)]
             g == turn_group_index_switch(popped, FALSE).self
         IN  Returns(turn_link_index_switch(g, FALSE).self, {})

remove_entry(self, entry) ==
    IF entry.tid \notin DOMAIN self.entry_index
    THEN Raises(self, "KeyError")
    ELSE LET popped == [self EXCEPT
                           !.entry_index = DictPop(@, entry.tid),
                           !.type_index  = DefaultGet(@, entry.type)]
         IN  IF entry.tid \notin popped.type_index[entry.type]
             THEN Raises(popped, "KeyError")
             ELSE LET removed == [popped EXCEPT
                                     !.type_index[entry.type] =
                                         @ \ {entry.tid}]
                      g == turn_group_index_switch(removed, FALSE).self
                  IN  Returns(turn_link_index_switch(g, FALSE).self, {})

\* The loop body with each set replaced by the link instead of added to.
update_link_index_link_overwrite(out, link) ==
    IF out.err # "none" THEN out
    ELSE IF "child_index" \notin DOMAIN out.self.link_index
    THEN Raises(out.self, "KeyError")
    ELSE LET c == [out.self EXCEPT !.link_index["child_index"] =
                      DictSet(@, link.child, {index_key(link)})]
         IN  IF "parent_index" \notin DOMAIN c.link_index
             THEN Raises(c, "KeyError")
             ELSE Returns([c EXCEPT !.link_index["parent_index"] =
                              DictSet(@, link.parent, {index_key(link)})],
                          {})

\* The body of update_link_index's loop, for one link. Each of the two
\* statements looks its sub-index up by name first.
update_link_index_link(out, link) ==
    IF out.err # "none" THEN out
    ELSE IF "child_index" \notin DOMAIN out.self.link_index
    THEN Raises(out.self, "KeyError")
    ELSE LET c == [out.self EXCEPT !.link_index["child_index"] =
                      DefaultAdd(@, link.child, index_key(link))]
         IN  IF "parent_index" \notin DOMAIN c.link_index
             THEN Raises(c, "KeyError")
             ELSE Returns([c EXCEPT !.link_index["parent_index"] =
                              DefaultAdd(@, link.parent, index_key(link))],
                          {})

RECURSIVE update_link_index_loop(_, _)
update_link_index_loop(out, links) ==
    IF links = <<>> THEN out
    ELSE update_link_index_loop(
             update_link_index_link(out, Head(links)), Tail(links))

update_link_index(self, links) ==
    IF ~self.link_index_switch
    THEN Raises(self, "PackIndexError")
    ELSE update_link_index_loop(Returns(self, {}), links)

\* build_link_index that turns on both switches.
build_link_index_turns_group(self, links) ==
    LET on == turn_link_index_switch(
                  turn_group_index_switch(self, TRUE).self, TRUE).self
        c  == [on EXCEPT !.link_index = DictSet(@, "child_index", EmptyDict)]
        p  == [c EXCEPT !.link_index = DictSet(@, "parent_index", EmptyDict)]
    IN  update_link_index(p, links)

\* build_link_index without the reset of the two mappings.
build_link_index_no_reset(self, links) ==
    LET on == turn_link_index_switch(self, TRUE).self
        c  == [on EXCEPT !.link_index =
                  DictSet(@, "child_index",
                          IF "child_index" \in DOMAIN @
                          THEN @["child_index"] ELSE EmptyDict)]
        p  == [c EXCEPT !.link_index =
                  DictSet(@, "parent_index",
                          IF "parent_index" \in DOMAIN @
                          THEN @["parent_index"] ELSE EmptyDict)]
    IN  update_link_index(p, links)

build_link_index(self, links) ==
    LET on == turn_link_index_switch(self, TRUE).self
        c  == [on EXCEPT !.link_index = DictSet(@, "child_index", EmptyDict)]
        p  == [c EXCEPT !.link_index = DictSet(@, "parent_index", EmptyDict)]
    IN  update_link_index(p, links)

\* The body of update_group_index's outer loop, for one group.
update_group_index_group(self, group) ==
    [self EXCEPT !.group_index =
        [k \in (DOMAIN @) \cup group.members |->
            IF k \in group.members
            THEN DefaultGet(@, k)[k] \cup {group.tid}
            ELSE @[k]]]

RECURSIVE update_group_index_loop(_, _)
update_group_index_loop(self, groups) ==
    IF groups = <<>> THEN self
    ELSE update_group_index_loop(
             update_group_index_group(self, Head(groups)), Tail(groups))

\* `not self._group_index` is true of a dictionary without keys.
update_group_index(self, groups) ==
    IF DOMAIN self.group_index = {}
    THEN Raises(self, "PackIndexError")
    ELSE Returns(update_group_index_loop(self, groups), {})

build_group_index(self, groups) ==
    LET on == turn_group_index_switch(self, TRUE).self
    IN  update_group_index([on EXCEPT !.group_index = EmptyDict], groups)

\* link_index without the test of the switch: a disabled or missing index
\* reads as "no links".
link_index_method_unguarded(self, tid, as_parent) ==
    LET name == IF as_parent THEN "parent_index" ELSE "child_index"
    IN  IF name \notin DOMAIN self.link_index
        THEN Returns(self, {})
        ELSE LET d == DefaultGet(self.link_index[name], tid)
             IN  Returns([self EXCEPT !.link_index[name] = d], d[tid])

link_index_method(self, tid, as_parent) ==
    LET name == IF as_parent THEN "parent_index" ELSE "child_index"
    IN  IF ~self.link_index_switch
        THEN Raises(self, "PackIndexError")
        ELSE IF name \notin DOMAIN self.link_index
        THEN Raises(self, "KeyError")
        ELSE LET d == DefaultGet(self.link_index[name], tid)
             IN  Returns([self EXCEPT !.link_index[name] = d], d[tid])

group_index_method(self, tid) ==
    IF ~self.group_index_switch
    THEN Raises(self, "PackIndexError")
    ELSE LET d == DefaultGet(self.group_index, tid)
         IN  Returns([self EXCEPT !.group_index = d], d[tid])

add_link_parent(self, parent, link) ==
    IF "parent_index" \notin DOMAIN self.link_index
    THEN Raises(self, "KeyError")
    ELSE Returns([self EXCEPT !.link_index["parent_index"] =
                     DefaultAdd(@, index_key(parent), link.tid)], {})

add_link_child(self, child, link) ==
    IF "child_index" \notin DOMAIN self.link_index
    THEN Raises(self, "KeyError")
    ELSE Returns([self EXCEPT !.link_index["child_index"] =
                     DefaultAdd(@, index_key(child), link.tid)], {})

add_group_member(self, member, group) ==
    Returns([self EXCEPT !.group_index =
                DefaultAdd(@, index_key(member), group.tid)], {})

---------------------------------------------------------------------------
\* The entry store behind BaseStore. BaseStore declares the operations;
\* their bodies are in the DataStore class, which is not part of the source
\* at hand, so the operations below follow the specification's sections 3,
\* 4.1, 6 and 8: a counter allocates the tids, every annotation type has a
\* collection sorted by (begin, end) with ties in insertion order, links and
\* groups have insertion-ordered collections. The model covers the backing
\* collections and the allocation of tids.

MaxStoreTid == 4
MaxOffset == 1
MaxTypeId == 1

AnnotationTypeIds == 0..MaxTypeId
LinkTypeId == MaxTypeId + 1
GroupTypeId == MaxTypeId + 2
TypeIds == 0..GroupTypeId
StoreTids == 1..MaxStoreTid
Offsets == 0..MaxOffset

BaseStore_init ==
    [elements |-> [t \in TypeIds |-> <<>>], tid_counter |-> 0]

\* What next_entry and prev_entry return at a boundary.
NoSuchEntry == [tid |-> 0, begin |-> 0, end |-> 0]

\* The tids of the entries in the store.
StoredTids(st) ==
    {st.elements[t][i].tid : <<t, i>> \in
        {<<t, i>> \in TypeIds \X (1..MaxStoreTid) :
            i \in DOMAIN st.elements[t]}}

\* The type_id of the collection that holds the entry `tid`.
TypeIdOf(st, tid) ==
    CHOOSE t \in TypeIds :
        \E i \in DOMAIN st.elements[t] : st.elements[t][i].tid = tid

\* The position of the entry `tid` in the collection `coll`.
IndexOf(coll, tid) == CHOOSE i \in DOMAIN coll : coll[i].tid = tid

\* The (begin, end) of `a` is not after that of `b`.
SpanLeq(a, b) ==
    a.begin < b.begin \/ (a.begin = b.begin /\ a.end <= b.end)

InsertAt(coll, pos, e) ==
    SubSeq(coll, 1, pos - 1) \o <<e>> \o SubSeq(coll, pos, Len(coll))

RemoveAt(coll, pos) ==
    SubSeq(coll, 1, pos - 1) \o SubSeq(coll, pos + 1, Len(coll))

\* An allocator that gives the smallest tid no entry of the store has.
new_tid_smallest_free(st) ==
    CHOOSE n \in 1..(MaxStoreTid + 1) :
        /\ n \notin StoredTids(st)
        /\ \A m \in 1..(n - 1) : m \in StoredTids(st)

\* The allocator: a counter that only grows.
new_tid(st) == st.tid_counter + 1

\* add_annotation_raw that appends the annotation to its collection.
add_annotation_raw_append(st, type_id, begin, end) ==
    IF begin > end
    THEN Raises(st, "InvalidArgument")
    ELSE LET tid == new_tid(st)
             e   == [tid |-> tid, begin |-> begin, end |-> end]
         IN  Returns([st EXCEPT
                         !.elements[type_id] = Append(@, e),
                         !.tid_counter = tid],
                     tid)

\* The annotation goes behind the annotations whose (begin, end) is not
\* after its own, which keeps the collection sorted and the ties in
\* insertion order.
add_annotation_raw(st, type_id, begin, end) ==
    IF begin > end
    THEN Raises(st, "InvalidArgument")
    ELSE LET tid  == new_tid(st)
             e    == [tid |-> tid, begin |-> begin, end |-> end]
             coll == st.elements[type_id]
             pos  == Cardinality({i \in DOMAIN coll : SpanLeq(coll[i], e)})
                        + 1
         IN  Returns([st EXCEPT
                         !.elements[type_id] = InsertAt(coll, pos, e),
                         !.tid_counter = tid],
                     tid)

\* Returns the tid and the position in the collection (from 0).
add_link_raw(st, type_id, parent_tid, child_tid) ==
    IF ~({parent_tid, child_tid} \subseteq StoredTids(st))
    THEN Raises(st, "NotFound")
    ELSE LET tid == new_tid(st)
             e   == [tid |-> tid, parent |-> parent_tid,
                     child |-> child_tid]
         IN  Returns([st EXCEPT
                         !.elements[type_id] = Append(@, e),
                         !.tid_counter = tid],
                     <<tid, Len(st.elements[type_id])>>)

\* The group starts with no member.
add_group_raw(st, type_id, member_type) ==
    LET tid == new_tid(st)
        e   == [tid |-> tid, member_type |-> member_type, members |-> {}]
    IN  Returns([st EXCEPT
                    !.elements[type_id] = Append(@, e),
                    !.tid_counter = tid],
                <<tid, Len(st.elements[type_id])>>)

delete_entry(st, tid) ==
    IF tid \notin StoredTids(st)
    THEN Raises(st, "NotFound")
    ELSE LET t == TypeIdOf(st, tid)
         IN  Returns([st EXCEPT !.elements[t] =
                         RemoveAt(@, IndexOf(@, tid))],
                     {})

\* The entries of annotation types only.
next_entry(st, tid) ==
    IF tid \notin StoredTids(st)
    THEN Raises(st, "NotFound")
    ELSE LET coll == st.elements[TypeIdOf(st, tid)]
             i    == IndexOf(coll, tid)
         IN  Returns(st, IF i < Len(coll) THEN coll[i + 1] ELSE NoSuchEntry)

prev_entry(st, tid) ==
    IF tid \notin StoredTids(st)
    THEN Raises(st, "NotFound")
    ELSE LET coll == st.elements[TypeIdOf(st, tid)]
             i    == IndexOf(coll, tid)
         IN  Returns(st, IF i > 1 THEN coll[i - 1] ELSE NoSuchEntry)

---------------------------------------------------------------------------
\* Alphabet (vocabulary_processor.py)

MaxWords == 2

\* texar.data.SpecialTokens
PAD == "<PAD>"
BOS == "<BOS>"
EOS == "<EOS>"
UNK == "<UNK>"

ReservedTokens == <<PAD, BOS, EOS, UNK>>

\* The instances that are added and looked up.
Words == {"a", "A", "b", "B"}

\* str.lower
lower(instance) ==
    CASE instance = "A" -> "a"
      [] instance = "B" -> "b"
      [] instance = PAD -> "<pad>"
      [] instance = BOS -> "<bos>"
      [] instance = EOS -> "<eos>"
      [] instance = UNK -> "<unk>"
      [] OTHER -> instance

\* The keys of a Counter in the order of its iteration: no key twice.
WordCnts ==
    {w \in ListsOf(Words, MaxWords) :
        \A i \in DOMAIN w, j \in DOMAIN w : i # j => w[i] # w[j]}

\* add without the test for a known instance.
add_unchecked(self, instance) ==
    Returns([self EXCEPT
                !.instance2index =
                    DictSet(@, instance, Cardinality(DOMAIN @)),
                !.instances = Append(@, instance)],
            {})

add(self, instance) ==
    IF instance \notin DOMAIN self.instance2index
    THEN Returns([self EXCEPT
                     !.instance2index =
                         DictSet(@, instance, Cardinality(DOMAIN @)),
                     !.instances = Append(@, instance)],
                 {})
    ELSE Returns(self, {})

RECURSIVE add_loop(_, _)
add_loop(self, list) ==
    IF list = <<>> THEN self
    ELSE add_loop(add(self, Head(list)).self, Tail(list))

close(self) == Returns([self EXCEPT !.keep_growing = FALSE], {})

open(self) == Returns([self EXCEPT !.keep_growing = TRUE], {})

\* Alphabet.__init__; `counted` says that word_cnt is not None.
Alphabet_init(counted, word_cnt, keep_growing_arg, ignore_case_arg) ==
    LET reserved == add_loop([instance2index       |-> EmptyDict,
                              instances            |-> <<>>,
                              keep_growing         |-> keep_growing_arg,
                              ignore_case_in_query |-> ignore_case_arg],
                             ReservedTokens)
    IN  IF counted
        THEN close(add_loop(reserved, word_cnt)).self
        ELSE reserved

\* get_index that adds the unknown instance whether open or closed.
get_index_always_grows(self, instance) ==
    IF instance \in DOMAIN self.instance2index
    THEN Returns(self, self.instance2index[instance])
    ELSE LET added == add(self, instance).self
         IN  Returns(added, added.instance2index[instance])

get_index(self, instance) ==
    IF instance \in DOMAIN self.instance2index
    THEN Returns(self, self.instance2index[instance])
    ELSE IF self.keep_growing
    THEN LET added == add(self, instance).self
         IN  Returns(added, added.instance2index[instance])
    ELSE IF self.ignore_case_in_query
              /\ lower(instance) \in DOMAIN self.instance2index
    THEN Returns(self, self.instance2index[lower(instance)])
    ELSE Returns(self, self.instance2index[UNK])

\* The list is indexed from 0.
get_instance(self, index) ==
    IF index + 1 \in DOMAIN self.instances
    THEN Returns(self, self.instances[index + 1])
    ELSE Raises(self, "IndexError")

size(self) == Returns(self, Len(self.instances))

---------------------------------------------------------------------------
\* The object and the calls made on it.

Self ==
    [entry_index        |-> entry_index,
     type_index         |-> type_index,
     subtype_index      |-> subtype_index,
     group_index        |-> group_index,
     link_index         |-> link_index,
     group_index_switch |-> group_index_switch,
     link_index_switch  |-> link_index_switch]

\* The call op(arg) ended as `out`.
CallOf(op, arg, out) ==
    /\ entry_index'        = out.self.entry_index
    /\ type_index'         = out.self.type_index
    /\ subtype_index'      = out.self.subtype_index
    /\ group_index'        = out.self.group_index
    /\ link_index'         = out.self.link_index
    /\ group_index_switch' = out.self.group_index_switch
    /\ link_index_switch'  = out.self.link_index_switch
    /\ last' = [op |-> op, arg |-> arg, err |-> out.err, ret |-> out.ret]
    /\ UNCHANGED <<elements, tid_counter, issued>>
    /\ UNCHANGED <<instance2index, instances, keep_growing,
                   ignore_case_in_query, made>>

\* The caller keeps no set.
NoReference == [src |-> "none", key |-> {}, was |-> {}, now |-> {}]

\* The caller keeps the set object that a query returned: `src` and `key`
\* say where in the index the object sits, `was` is its contents when it was
\* returned, `now` its contents now. query_by_type, link_index and
\* group_index return the set object of the mapping itself;
\* query_by_type_subtype returns the set object it cached.
Reference(src, key, ret) ==
    [src |-> src, key |-> key, was |-> ret, now |-> ret]

\* What the call `op` does to the kept set object. The sets of the type,
\* link and group mappings are changed in place by .add and .remove, so
\* the kept object has the contents of its place in the mapping; the two
\* builds bind new mappings, which leaves the kept object out of the index.
\* A cached subtype set is never changed once it is returned.
Aliased(op) ==
    held' =
        CASE held.src = "type_index" ->
                 [held EXCEPT !.now = type_index'[held.key]]
          [] held.src = "link_index" ->
                 IF op = "build_link_index"
                 THEN [held EXCEPT !.src = "replaced"]
                 ELSE [held EXCEPT
                          !.now = link_index'[held.key[1]][held.key[2]]]
          [] held.src = "group_index" ->
                 IF op = "build_group_index"
                 THEN [held EXCEPT !.src = "replaced"]
                 ELSE [held EXCEPT !.now = group_index'[held.key]]
          [] OTHER -> held

\* How the Alphabet came to be: with a word counter or not, with which
\* keep_growing argument, and no open() or close() called yet.
Constructed(counted, keep_growing_arg) ==
    [counted |-> counted, keep_growing |-> keep_growing_arg,
     toggled |-> "none"]

\* The state after the construction of a BaseIndex, of a store and of the
\* Alphabet `alphabet`, constructed as `how` tells.
InitWith(alphabet, how) ==
    /\ entry_index        = BaseIndex_init.entry_index
    /\ type_index         = BaseIndex_init.type_index
    /\ subtype_index      = BaseIndex_init.subtype_index
    /\ group_index        = BaseIndex_init.group_index
    /\ link_index         = BaseIndex_init.link_index
    /\ group_index_switch = BaseIndex_init.group_index_switch
    /\ link_index_switch  = BaseIndex_init.link_index_switch
    /\ last = [op |-> "init", arg |-> {}, err |-> "none", ret |-> {}]
    /\ live = {}
    /\ gone = {}
    /\ held = NoReference
    /\ elements    = BaseStore_init.elements
    /\ tid_counter = BaseStore_init.tid_counter
    /\ issued = <<>>
    /\ instance2index       = alphabet.instance2index
    /\ instances            = alphabet.instances
    /\ keep_growing         = alphabet.keep_growing
    /\ ignore_case_in_query = alphabet.ignore_case_in_query
    /\ made = how

\* The Alphabet is constructed with the default arguments.
Init ==
    InitWith(Alphabet_init(FALSE, <<>>, TRUE, TRUE),
             Constructed(FALSE, TRUE))

\* A call that neither inserts nor removes an entry.
Call(op, arg, out) ==
    CallOf(op, arg, out) /\ UNCHANGED <<live, gone>> /\ Aliased(op)

UpdateBasicIndex(lists) ==
    \E entries \in lists :
        /\ CallOf("update_basic_index", entries,
                  update_basic_index(Self, entries))
        /\ live' = live \cup Range(entries)
        /\ gone' = gone \ Range(entries)
        /\ Aliased("update_basic_index")

GetEntry ==
    \E tid \in Tids : Call("get_entry", tid, get_entry(Self, tid))

QueryByType ==
    \E t \in Types : Call("query_by_type", t, query_by_type(Self, t))

QueryByTypeSubtype ==
    \E t \in Types :
        Call("query_by_type_subtype", t, query_by_type_subtype(Self, t))

RemoveEntry(entries) ==
    \E entry \in entries :
        LET out == remove_entry(Self, entry)
        IN  /\ CallOf("remove_entry", entry, out)
            /\ live' = IF out.err = "none" THEN live \ {entry} ELSE live
            /\ gone' = IF out.err = "none" THEN gone \cup {entry} ELSE gone
            /\ Aliased("remove_entry")

TurnLinkIndexSwitch ==
    \E on \in BOOLEAN :
        Call("turn_link_index_switch", on, turn_link_index_switch(Self, on))

TurnGroupIndexSwitch ==
    \E on \in BOOLEAN :
        Call("turn_group_index_switch", on, turn_group_index_switch(Self, on))

BuildLinkIndex(lists) ==
    \E links \in lists :
        Call("build_link_index", links, build_link_index(Self, links))

UpdateLinkIndex(lists) ==
    \E links \in lists :
        Call("update_link_index", links, update_link_index(Self, links))

BuildGroupIndex(lists) ==
    \E groups \in lists :
        Call("build_group_index", groups, build_group_index(Self, groups))

UpdateGroupIndex(lists) ==
    \E groups \in lists :
        Call("update_group_index", groups, update_group_index(Self, groups))

LinkIndex(keys) ==
    \E tid \in keys, as_parent \in BOOLEAN :
        Call("link_index", <<tid, as_parent>>,
             link_index_method(Self, tid, as_parent))

GroupIndex(keys) ==
    \E tid \in keys :
        Call("group_index", tid, group_index_method(Self, tid))

\* The store, as the operations see it.
Store == [elements |-> elements, tid_counter |-> tid_counter]

\* The store call op(arg) ended as `out`.
StoreCall(op, arg, out) ==
    /\ elements'    = out.self.elements
    /\ tid_counter' = out.self.tid_counter
    /\ last' = [op |-> op, arg |-> arg, err |-> out.err, ret |-> out.ret]
    /\ UNCHANGED <<entry_index, type_index, subtype_index, group_index,
                   link_index, group_index_switch, link_index_switch,
                   live, gone, held>>
    /\ UNCHANGED <<instance2index, instances, keep_growing,
                   ignore_case_in_query, made>>

\* An add_* call, whose tid goes to the history when it returns one.
StoreAdd(op, arg, out, tid) ==
    /\ tid_counter < MaxStoreTid
    /\ StoreCall(op, arg, out)
    /\ issued' = IF out.err = "none" THEN Append(issued, tid) ELSE issued

AddAnnotationRaw ==
    \E type_id \in AnnotationTypeIds, begin \in Offsets, end \in Offsets :
        LET out == add_annotation_raw(Store, type_id, begin, end)
        IN  StoreAdd("add_annotation_raw", <<type_id, begin, end>>, out,
                     out.ret)

AddLinkRaw ==
    \E parent_tid \in StoreTids, child_tid \in StoreTids :
        LET out == add_link_raw(Store, LinkTypeId, parent_tid, child_tid)
        IN  StoreAdd("add_link_raw", <<LinkTypeId, parent_tid, child_tid>>,
                     out, new_tid(Store))

AddGroupRaw ==
    \E member_type \in Types :
        LET out == add_group_raw(Store, GroupTypeId, member_type)
        IN  StoreAdd("add_group_raw", <<GroupTypeId, member_type>>, out,
                     new_tid(Store))

DeleteEntry ==
    \E tid \in StoreTids :
        /\ StoreCall("delete_entry", tid, delete_entry(Store, tid))
        /\ UNCHANGED issued

\* The tids that next_entry and prev_entry are for: those of annotations,
\* and those of no entry.
AnnotationOrNoTid(tid) ==
    tid \in StoredTids(Store) => TypeIdOf(Store, tid) \in AnnotationTypeIds

NextEntry ==
    \E tid \in StoreTids :
        /\ AnnotationOrNoTid(tid)
        /\ StoreCall("next_entry", tid, next_entry(Store, tid))
        /\ UNCHANGED issued

PrevEntry ==
    \E tid \in StoreTids :
        /\ AnnotationOrNoTid(tid)
        /\ StoreCall("prev_entry", tid, prev_entry(Store, tid))
        /\ UNCHANGED issued

NextStore ==
    \/ AddAnnotationRaw
    \/ AddLinkRaw
    \/ AddGroupRaw
    \/ DeleteEntry
    \/ NextEntry
    \/ PrevEntry

SpecStore == Init /\ [][NextStore]_vars

\* The Alphabet, as its methods see it.
SelfAlphabet ==
    [instance2index       |-> instance2index,
     instances            |-> instances,
     keep_growing         |-> keep_growing,
     ignore_case_in_query |-> ignore_case_in_query]

\* The Alphabet call op(arg) ended as `out`. `ret` is the set of the values
\* it returned: empty for a call that returns None.
AlphabetCall(op, arg, out, ret) ==
    /\ instance2index'       = out.self.instance2index
    /\ instances'            = out.self.instances
    /\ keep_growing'         = out.self.keep_growing
    /\ ignore_case_in_query' = out.self.ignore_case_in_query
    /\ last' = [op |-> op, arg |-> arg, err |-> out.err, ret |-> ret]
    /\ made' = IF op \in {"open", "close"}
               THEN [made EXCEPT !.toggled = op]
               ELSE made
    /\ UNCHANGED <<entry_index, type_index, subtype_index, group_index,
                   link_index, group_index_switch, link_index_switch,
                   live, gone, held, elements, tid_counter, issued>>

AlphabetAdd ==
    \E instance \in Words :
        AlphabetCall("add", instance, add(SelfAlphabet, instance), {})

AlphabetGetIndex ==
    \E instance \in Words \cup Range(ReservedTokens) :
        LET out == get_index(SelfAlphabet, instance)
        IN  AlphabetCall("get_index", instance, out, {out.ret})

AlphabetOpen == AlphabetCall("open", {}, open(SelfAlphabet), {})

AlphabetClose == AlphabetCall("close", {}, close(SelfAlphabet), {})

\* An Alphabet constructed with any arguments.
InitAlphabet ==
    \E counted \in BOOLEAN, word_cnt \in WordCnts,
       keep_growing_arg \in BOOLEAN, ignore_case_arg \in BOOLEAN :
        /\ ~counted => word_cnt = <<>>
        /\ InitWith(Alphabet_init(counted, word_cnt, keep_growing_arg,
                                  ignore_case_arg),
                    Constructed(counted, keep_growing_arg))

NextAlphabet ==
    \/ AlphabetAdd
    \/ AlphabetGetIndex
    \/ AlphabetOpen
    \/ AlphabetClose

SpecAlphabet == InitAlphabet /\ [][NextAlphabet]_vars

\* A query whose caller keeps the returned set.
Hold(op, arg, out, src, key) ==
    /\ CallOf(op, arg, out)
    /\ UNCHANGED <<live, gone>>
    /\ IF out.err = "none"
       THEN held' = Reference(src, key, out.ret)
       ELSE Aliased(op)

HoldQueryByType ==
    \E t \in Types :
        Hold("query_by_type", t, query_by_type(Self, t), "type_index", t)

HoldQueryByTypeSubtype ==
    \E t \in Types :
        Hold("query_by_type_subtype", t, query_by_type_subtype(Self, t),
             "subtype_index", t)

HoldLinkIndex(keys) ==
    \E tid \in keys, as_parent \in BOOLEAN :
        Hold("link_index", <<tid, as_parent>>,
             link_index_method(Self, tid, as_parent), "link_index",
             <<IF as_parent THEN "parent_index" ELSE "child_index", tid>>)

HoldGroupIndex(keys) ==
    \E tid \in keys :
        Hold("group_index", tid, group_index_method(Self, tid),
             "group_index", tid)

AddLinkParent(keys, links) ==
    \E key \in keys, link \in links :
        Call("add_link_parent", <<key, link.tid>>,
             add_link_parent(Self, [tid |-> key], link))

AddLinkChild(keys, links) ==
    \E key \in keys, link \in links :
        Call("add_link_child", <<key, link.tid>>,
             add_link_child(Self, [tid |-> key], link))

AddGroupMember(keys, groups) ==
    \E key \in keys, group \in groups :
        Call("add_group_member", <<key, group.tid>>,
             add_group_member(Self, [tid |-> key], group))

---------------------------------------------------------------------------
\* The basic indexes: every entry, every type, every query.

NextBasic ==
    \/ UpdateBasicIndex(EntryLists)
    \/ GetEntry
    \/ QueryByType
    \/ QueryByTypeSubtype
    \/ RemoveEntry(Entries)

SpecBasic == Init /\ [][NextBasic]_vars

\* Insertions and subtype queries only: no deletion.
NextSubtype ==
    \/ UpdateBasicIndex(EntryLists)
    \/ QueryByTypeSubtype

SpecSubtype == Init /\ [][NextSubtype]_vars

\* The entry whose insertion and removal the relation indexes see below.
OneEntry == {e \in Entries : e.tid = 1}

\* The link index built, updated and queried with every link and key, and
\* one entry to remove.
NextLink ==
    \/ UpdateBasicIndex(ListsOf(OneEntry, 1))
    \/ RemoveEntry(OneEntry)
    \/ TurnLinkIndexSwitch
    \/ BuildLinkIndex(LinkLists)
    \/ UpdateLinkIndex(LinkLists)
    \/ LinkIndex(Keys)

SpecLink == Init /\ [][NextLink]_vars

\* The group index, with every group and key, and one entry to remove.
NextGroup ==
    \/ UpdateBasicIndex(ListsOf(OneEntry, 1))
    \/ RemoveEntry(OneEntry)
    \/ TurnGroupIndexSwitch
    \/ BuildGroupIndex(GroupLists)
    \/ UpdateGroupIndex(GroupLists)
    \/ GroupIndex(Keys)
    \/ AddGroupMember(Keys, Groups)

SpecGroup == Init /\ [][NextGroup]_vars

\* Every mutating call and both relation queries on one object: two entries
\* (one of them a link endpoint and group member, the other neither), one
\* link and the groups over the first key.
TwoEntries == {e \in Entries : e.tid <= 2}

OneKey == {k \in Keys : k = 1}

OneLink == {l \in Links : l.tid = 1 /\ l.parent = 1 /\ l.child = 2}

OneGroup == {g \in Groups : g.tid = 1 /\ g.members \subseteq OneKey}

Next ==
    \/ UpdateBasicIndex(ListsOf(TwoEntries, 1))
    \/ RemoveEntry(TwoEntries)
    \/ TurnLinkIndexSwitch
    \/ TurnGroupIndexSwitch
    \/ BuildLinkIndex(ListsOf(OneLink, 1))
    \/ UpdateLinkIndex(ListsOf(OneLink, 1))
    \/ BuildGroupIndex(ListsOf(OneGroup, 1))
    \/ UpdateGroupIndex(ListsOf(OneGroup, 1))
    \/ LinkIndex(OneKey)
    \/ GroupIndex(OneKey)
    \/ AddLinkParent(OneKey, OneLink)
    \/ AddLinkChild(OneKey, OneLink)
    \/ AddGroupMember(OneKey, OneGroup)

Spec == Init /\ [][Next]_vars

---------------------------------------------------------------------------
\* The claims about the type index.

\* The tids of the entries in `entries` whose class is exactly t.
TidsOfType(entries, t) == {e.tid : e \in {x \in entries : x.type = t}}

\* The tids of the entries in `entries` whose class is t or derives from t.
TidsOfSubtype(entries, t) ==
    {e.tid : e \in {x \in entries : issubclass(x.type, t)}}

\* C1: with no deletion, query_by_type_subtype(T) returns every registered
\* tid whose type is T or a subtype of T, also when the result for T was
\* cached before an entry of a subtype of T was inserted.
C1_SubtypeQueryComplete ==
    last.op = "query_by_type_subtype" =>
        /\ last.err = "none"
        /\ last.ret = TidsOfSubtype(live, last.arg)

\* C2: query_by_type(T) is exactly the set of tids of the entries of exact
\* type T that were inserted and not removed since.
C2_QueryByTypeExact ==
    /\ \A t \in Types : query_by_type(Self, t).ret = TidsOfType(live, t)
    /\ last.op = "query_by_type" =>
          last.err = "none" /\ last.ret = TidsOfType(live, last.arg)

\* C2's case: a query of a type of which one entry is registered and
\* another was removed, while an entry of the other type is registered.
C2_Witness ==
    /\ last.op = "query_by_type"
    /\ last.arg = "Base"
    /\ Cardinality(last.ret) = 1
    /\ \E e \in gone : e.type = "Base"
    /\ \E e \in live : e.type = "Sub"

\* C7: get_entry(tid) returns the entry exactly when it was inserted and
\* not removed since, and raises KeyError otherwise; a removed tid is in no
\* type bucket; remove_entry of an entry that is not registered raises
\* KeyError.
C7_GetEntryFound ==
    /\ \A e \in Entries :
          /\ e \in live => get_entry(Self, e.tid) = Returns(Self, {e})
          /\ e \notin live =>
                /\ get_entry(Self, e.tid) = Raises(Self, "KeyError")
                /\ remove_entry(Self, e) = Raises(Self, "KeyError")
                /\ \A t \in DOMAIN type_index : e.tid \notin type_index[t]
    /\ last.op = "get_entry" =>
          IF \E e \in live : e.tid = last.arg
          THEN last.err = "none" /\ last.ret \subseteq live
          ELSE last.err = "KeyError"
    /\ (last.op = "remove_entry" /\ last.err = "none") =>
          \A t \in DOMAIN type_index : last.arg.tid \notin type_index[t]

\* C7's case: get_entry of a tid that was inserted and then removed, while
\* its former type bucket still exists.
C7_Witness ==
    /\ last.op = "get_entry"
    /\ last.err = "KeyError"
    /\ \E e \in gone : e.tid = last.arg /\ e.type \in DOMAIN type_index

---------------------------------------------------------------------------
\* The claims about the link and group indexes.

\* The ids of the links of a list whose parent (child) key is `key`.
LinksOfParent(links, key) ==
    {l.tid : l \in {x \in Range(links) : x.parent = key}}

LinksOfChild(links, key) ==
    {l.tid : l \in {x \in Range(links) : x.child = key}}

\* The tids of the groups of a list that have `key` as a member.
GroupsOfMember(groups, key) ==
    {g.tid : g \in {x \in Range(groups) : key \in x.members}}

\* C3: while the link switch is off, link_index raises PackIndexError for
\* every tid and either value of as_parent and returns no set; while the
\* group switch is off, group_index raises PackIndexError.
C3_DisabledIndexRaises ==
    /\ ~link_index_switch =>
          /\ \A tid \in Keys, as_parent \in BOOLEAN :
                link_index_method(Self, tid, as_parent)
                    = Raises(Self, "PackIndexError")
          /\ last.op = "link_index" => last.err = "PackIndexError"
    /\ ~group_index_switch =>
          /\ \A tid \in Keys :
                group_index_method(Self, tid) = Raises(Self, "PackIndexError")
          /\ last.op = "group_index" => last.err = "PackIndexError"

\* C3's case: link_index is called on an index that was built and then
\* disabled by the removal of an entry.
C3_Witness ==
    /\ last.op = "link_index"
    /\ last.err = "PackIndexError"
    /\ DOMAIN link_index # {}
    /\ gone # {}
    /\ ~link_index_switch

\* C4: right after build_link_index(L), link_index(p, as_parent=True) is the
\* set of ids of the links of L whose parent key is p, and
\* link_index(p, as_parent=False) the set of those whose child key is p.
C4_BuildLinkIndexExact ==
    last.op = "build_link_index" =>
        /\ last.err = "none"
        /\ \A p \in Keys :
              /\ link_index_method(Self, p, TRUE).err = "none"
              /\ link_index_method(Self, p, TRUE).ret
                     = LinksOfParent(last.arg, p)
              /\ link_index_method(Self, p, FALSE).err = "none"
              /\ link_index_method(Self, p, FALSE).ret
                     = LinksOfChild(last.arg, p)

\* C4's case: a build, after the removal of an entry, from two links with
\* the same parent, which leaves a key that is no link's parent.
C4_Witness ==
    /\ last.op = "build_link_index"
    /\ last.err = "none"
    /\ Len(last.arg) = 2
    /\ \E p \in Keys : Cardinality(LinksOfParent(last.arg, p)) = 2
    /\ \E p \in Keys : LinksOfParent(last.arg, p) = {}
    /\ gone # {}

\* C5: build_group_index(G) returns without error, leaves the group switch
\* on, and afterwards group_index(m) is the set of tids of the groups of G
\* that have m as a member.
C5_BuildGroupIndexExact ==
    last.op = "build_group_index" =>
        /\ last.err = "none"
        /\ group_index_switch
        /\ \A m \in Keys :
              /\ group_index_method(Self, m).err = "none"
              /\ group_index_method(Self, m).ret
                     = GroupsOfMember(last.arg, m)

\* A successful remove_entry leaves both switches off.
RemoveTurnsBothOff ==
    (last'.op = "remove_entry" /\ last'.err = "none") =>
        (~link_index_switch' /\ ~group_index_switch')

C8_FailedCallChangesNothing ==
    [][last'.err # "none" => Self' = Self]_vars

\* C9: a switch that is on stands over a built index: with the link switch
\* on both link mappings exist, and a build_group_index that raised has not
\* left the group switch on.
C9_OnMeansBuilt ==
    /\ link_index_switch =>
          {"child_index", "parent_index"} \subseteq DOMAIN link_index
    /\ (last.op = "build_group_index" /\ last.err # "none") =>
          ~group_index_switch

\* The link `l` is recorded in the link index `li`.
Recorded(li, l) ==
    /\ {"child_index", "parent_index"} \subseteq DOMAIN li
    /\ l.parent \in DOMAIN li["parent_index"]
    /\ l.tid \in li["parent_index"][l.parent]
    /\ l.child \in DOMAIN li["child_index"]
    /\ l.tid \in li["child_index"][l.child]

\* Every id recorded in the link index `li` is recorded in `lj`.
Keeps(li, lj) ==
    \A name \in DOMAIN li :
        /\ name \in DOMAIN lj
        /\ \A key \in DOMAIN li[name] :
              /\ key \in DOMAIN lj[name]
              /\ li[name][key] \subseteq lj[name][key]

\* C10: update_link_index called with the link switch off raises
\* PackIndexError and records nothing; called with the switch on it returns
\* and has every link recorded under its parent and child key, with every id
\* recorded before still recorded.
C10_UpdateLinkIndexGated ==
    [][last'.op = "update_link_index" =>
          IF ~link_index_switch
          THEN last'.err = "PackIndexError" /\ link_index' = link_index
          ELSE /\ last'.err = "none"
               /\ \A l \in Range(last'.arg) : Recorded(link_index', l)
               /\ Keeps(link_index, link_index')]_vars

\* The group `g` is recorded in the group index `gi` under every member.
GroupRecorded(gi, g) ==
    \A m \in g.members : m \in DOMAIN gi /\ g.tid \in gi[m]

\* C11: update_group_index raises PackIndexError exactly when the group
\* switch is off, and with the switch on it returns and has every group
\* recorded under each of its members.
C11_UpdateGroupIndexGated ==
    [][last'.op = "update_group_index" =>
          IF ~group_index_switch
          THEN last'.err = "PackIndexError"
          ELSE /\ last'.err = "none"
               /\ \A g \in Range(last'.arg) :
                     GroupRecorded(group_index', g)]_vars

\* C12: add_link_parent, add_link_child and add_group_member called with
\* their switch off raise PackIndexError and record nothing; called with the
\* switch on they return and add the one tid under the one key.
C12_AddGated ==
    [][/\ last'.op \in {"add_link_parent", "add_link_child"} =>
             IF ~link_index_switch
             THEN last'.err = "PackIndexError" /\ link_index' = link_index
             ELSE last'.err = "none"
       /\ last'.op = "add_group_member" =>
             IF ~group_index_switch
             THEN last'.err = "PackIndexError" /\ group_index' = group_index
             ELSE /\ last'.err = "none"
                  /\ group_index' =
                        DefaultAdd(group_index, last'.arg[1], last'.arg[2])
      ]_vars

\* The queries with a caller that keeps the returned set, and the calls
\* that change the index afterwards.
NextQuery ==
    \/ UpdateBasicIndex(ListsOf(OneEntry, 1))
    \/ RemoveEntry(OneEntry)
    \/ HoldQueryByType
    \/ HoldQueryByTypeSubtype
    \/ BuildLinkIndex(ListsOf(OneLink, 1))
    \/ UpdateLinkIndex(ListsOf(OneLink, 1))
    \/ AddLinkChild(OneKey, OneLink)
    \/ HoldLinkIndex(OneKey)
    \/ BuildGroupIndex(ListsOf(OneGroup, 1))
    \/ AddGroupMember(OneKey, OneGroup)
    \/ HoldGroupIndex(OneKey)

SpecQuery == Init /\ [][NextQuery]_vars

\* The switches of an object's state.
Switches(self) == <<self.link_index_switch, self.group_index_switch>>

\* C14: build_link_index changes neither the group switch nor the group
\* mapping, build_group_index changes neither the link switch nor the link
\* mappings, and update_basic_index, update_link_index, update_group_index,
\* add_link_parent, add_link_child, add_group_member and the queries leave
\* both switches as they are.
C14_SwitchesIndependent ==
    [][/\ last'.op = "build_link_index" =>
             /\ group_index_switch' = group_index_switch
             /\ group_index' = group_index
       /\ last'.op = "build_group_index" =>
             /\ link_index_switch' = link_index_switch
             /\ link_index' = link_index
       /\ last'.op \in {"update_basic_index", "update_link_index",
                        "update_group_index", "add_link_parent",
                        "add_link_child", "add_group_member",
                        "link_index", "group_index"} =>
             Switches(Self') = Switches(Self)
       /\ \A t \in Types :
             /\ Switches(query_by_type(Self, t).self) = Switches(Self)
             /\ Switches(query_by_type_subtype(Self, t).self)
                    = Switches(Self)
       /\ \A tid \in Tids :
             Switches(get_entry(Self, tid).self) = Switches(Self)]_vars

\* C14's case: after the removal of an entry, build_link_index alone has
\* been called: link_index returns a set and group_index still raises, over
\* a group mapping that holds a group.
C14_Witness ==
    /\ last.op = "build_link_index"
    /\ last.err = "none"
    /\ last.arg # <<>>
    /\ gone # {}
    /\ \E m \in DOMAIN group_index : group_index[m] # {}
    /\ \A k \in OneKey : link_index_method(Self, k, TRUE).err = "none"
    /\ \A k \in OneKey :
          group_index_method(Self, k).err = "PackIndexError"

\* C15: the tids of the entry index are the union of the type buckets, and
\* every registered tid is in the bucket of its entry's exact type and in no
\* other bucket.
C15_BucketsPartitionEntries ==
    /\ DOMAIN entry_index = UNION {type_index[t] : t \in DOMAIN type_index}
    /\ \A t \in DOMAIN type_index, u \in DOMAIN type_index :
          t # u => type_index[t] \cap type_index[u] = {}
    /\ \A tid \in DOMAIN entry_index :
          /\ entry_index[tid].type \in DOMAIN type_index
          /\ tid \in type_index[entry_index[tid].type]
    /\ DOMAIN entry_index = {e.tid : e \in live}

\* C15's case: entries of both classes are registered after an entry was
\* removed, and the bucket of the removed entry's class is not empty.
C15_Witness ==
    /\ last.op = "remove_entry"
    /\ last.err = "none"
    /\ type_index[last.arg.type] # {}
    /\ \A t \in Types : \E e \in live : e.type = t

\* C16: remove_entry leaves the subtype cache as it is, and a
\* query_by_type_subtype(T) of a cached T returns the cached set and
\* changes nothing.
C16_RemoveKeepsSubtypeCache ==
    [][/\ last'.op = "remove_entry" => subtype_index' = subtype_index
       /\ (last'.op = "query_by_type_subtype"
            /\ last'.arg \in DOMAIN subtype_index) =>
             /\ last'.ret = subtype_index[last'.arg]
             /\ Self' = Self]_vars

\* C16's case: an entry is removed while the cached result of its class
\* holds its tid.
C16_Witness ==
    /\ last.op = "remove_entry"
    /\ last.err = "none"
    /\ last.arg.type \in DOMAIN subtype_index
    /\ last.arg.tid \in subtype_index[last.arg.type]

\* The link index that build_link_index(links) makes of a new object.
BuiltFrom(links) == build_link_index(BaseIndex_init, links).self.link_index

\* C20: in the state that build_link_index(L1) leaves, build_link_index(L2)
\* gives the link index of build_link_index(L2) alone (of L1 itself when
\* L2 = L1), and update_link_index(L2) gives the link index of
\* build_link_index(L1 ++ L2), which is also that of L2 ++ L1 and of
\* L1 ++ L2 ++ L2.
C20_BuildResetsUpdateAccumulates ==
    last.op = "build_link_index" =>
        /\ link_index = BuiltFrom(last.arg)
        /\ build_link_index(Self, last.arg).self = Self
        /\ \A L2 \in LinkLists :
              /\ build_link_index(Self, L2).self.link_index = BuiltFrom(L2)
              /\ update_link_index(Self, L2).err = "none"
              /\ update_link_index(Self, L2).self.link_index
                     = BuiltFrom(last.arg \o L2)
              /\ BuiltFrom(last.arg \o L2) = BuiltFrom(L2 \o last.arg)
              /\ BuiltFrom(last.arg \o L2) = BuiltFrom(last.arg \o L2 \o L2)

\* C20's case: a build from two links of different tids, the parent of one
\* being the child of the other, on an object whose index had been built.
C20_Witness ==
    /\ last.op = "build_link_index"
    /\ last.err = "none"
    /\ Len(last.arg) = 2
    /\ last.arg[1].tid # last.arg[2].tid
    /\ last.arg[1].parent = last.arg[2].child
    /\ gone # {}

\* C13: the set a query returned has, after every later call, the contents
\* it had when it was returned.
C13_ResultsAreSnapshots ==
    held.src # "none" => held.now = held.was

\* The type `t` has no registered entry.
Unseen(t) == t \notin DOMAIN type_index \/ type_index[t] = {}

\* No relation is recorded under `key` in the mapping `d`.
NoRelation(d, key) == key \notin DOMAIN d \/ d[key] = {}

\* C17: query_by_type of a type with no registered entry returns the empty
\* set and leaves the type index and indexed_types() as they are;
\* link_index and group_index, switched on, of a key with no recorded
\* relation return the empty set and leave the link and group mappings as
\* they are.
C17_LookupInsertsNothing ==
    [][/\ (last'.op = "query_by_type" /\ Unseen(last'.arg)) =>
             /\ last'.ret = {}
             /\ type_index' = type_index
             /\ indexed_types(Self').ret = indexed_types(Self).ret
       /\ (/\ last'.op = "link_index"
           /\ link_index_switch
           /\ \A name \in DOMAIN link_index :
                 NoRelation(link_index[name], last'.arg[1])) =>
             /\ last'.err = "none"
             /\ last'.ret = {}
             /\ link_index' = link_index
       /\ (/\ last'.op = "group_index"
           /\ group_index_switch
           /\ NoRelation(group_index, last'.arg)) =>
             /\ last'.ret = {}
             /\ group_index' = group_index]_vars

\* C18: the tids that the add_* calls of one store returned are pairwise
\* distinct, whatever was deleted between the calls, and every entry of the
\* store has one of them.
C18_TidsNeverReused ==
    /\ \A i \in DOMAIN issued, j \in DOMAIN issued :
          i # j => issued[i] # issued[j]
    /\ StoredTids(Store) \subseteq Range(issued)
    /\ \A t \in TypeIds :
          \A i \in DOMAIN elements[t], j \in DOMAIN elements[t] :
              i # j => elements[t][i].tid # elements[t][j].tid

\* C18's case: an add_* call returned a tid after an entry with a smaller
\* tid was deleted, and annotation, link and group tids were issued.
C18_Witness ==
    /\ last.op \in {"add_annotation_raw", "add_link_raw", "add_group_raw"}
    /\ last.err = "none"
    /\ Len(issued) = MaxStoreTid
    /\ \E i \in DOMAIN issued :
          /\ issued[i] \notin StoredTids(Store)
          /\ issued[i] < issued[Len(issued)]
    /\ elements[LinkTypeId] # <<>>

\* The annotations of the type `t`.
AnnotationsOf(t) == Range(elements[t])

\* `a` comes before `b` in the (begin, end) order, ties in insertion order;
\* tids grow with the insertions.
Before(a, b) ==
    \/ a.begin < b.begin
    \/ a.begin = b.begin /\ a.end < b.end
    \/ a.begin = b.begin /\ a.end = b.end /\ a.tid < b.tid

\* `a` is immediately before `b` among the annotations of the type `t`.
ImmediatelyBefore(t, a, b) ==
    /\ Before(a, b)
    /\ ~ \E c \in AnnotationsOf(t) : Before(a, c) /\ Before(c, b)

\* C19: for annotations a, b of one type with a immediately before b in
\* the (begin, end) order, next_entry(tid(a)) is b and prev_entry(tid(b)) is
\* a; next_entry of the last and prev_entry of the first annotation of a
\* type are the no-such-entry value; in every state, that is after every
\* insertion and deletion.
C19_AdjacencyDuality ==
    \A t \in AnnotationTypeIds :
        \A a \in AnnotationsOf(t) :
            /\ \A b \in AnnotationsOf(t) :
                  ImmediatelyBefore(t, a, b) =>
                      /\ next_entry(Store, a.tid).ret = b
                      /\ prev_entry(Store, b.tid).ret = a
            /\ (~ \E b \in AnnotationsOf(t) : Before(a, b)) =>
                  next_entry(Store, a.tid).ret = NoSuchEntry
            /\ (~ \E b \in AnnotationsOf(t) : Before(b, a)) =>
                  prev_entry(Store, a.tid).ret = NoSuchEntry

\* C19's case: one of two annotations of a type is deleted and next_entry
\* of the other one returns the no-such-entry value, in a store where
\* another type has an annotation that was inserted in front of an older one.
C19_Witness ==
    /\ last.op = "next_entry"
    /\ last.err = "none"
    /\ last.ret = NoSuchEntry
    /\ \E t \in AnnotationTypeIds :
          /\ Len(elements[t]) = 1
          /\ elements[t][1].tid = last.arg
          /\ \E i \in DOMAIN issued : issued[i] \notin StoredTids(Store)
    /\ \E t \in AnnotationTypeIds :
          /\ Len(elements[t]) = 2
          /\ elements[t][1].tid > elements[t][2].tid

\* C21: every tid in the set that query_by_type_subtype(T) returns is live:
\* get_entry on it returns, it is in the type bucket of T or of a subclass
\* of T, and it is the tid of no removed entry.
C21_SubtypeQuerySound ==
    [][last'.op = "query_by_type_subtype" =>
          \A tid \in last'.ret :
              /\ get_entry(Self', tid).err = "none"
              /\ \E k \in DOMAIN type_index' :
                    issubclass(k, last'.arg) /\ tid \in type_index'[k]
              /\ tid \notin {e.tid : e \in gone'}]_vars

\* instance2index and instances are one bijection, with the reserved tokens
\* at the front.
AlphabetConsistent ==
    /\ \A i \in DOMAIN instances, j \in DOMAIN instances :
          i # j => instances[i] # instances[j]
    /\ size(SelfAlphabet).ret = Cardinality(DOMAIN instance2index)
    /\ \A x \in DOMAIN instance2index :
          get_instance(SelfAlphabet, instance2index[x]).ret = x
    /\ \A i \in DOMAIN ReservedTokens :
          /\ ReservedTokens[i] \in DOMAIN instance2index
          /\ instance2index[ReservedTokens[i]] = i - 1

\* C22: after construction and every add, get_index, open and close call,
\* instances has no duplicates, size() is the number of keys of
\* instance2index, instances[instance2index[x]] is x for every known x, PAD,
\* BOS, EOS and UNK have the ids 0, 1, 2 and 3, and no call changes the
\* index of a known instance.
C22_AlphabetBijection ==
    /\ []AlphabetConsistent
    /\ [][\A x \in DOMAIN instance2index :
              /\ x \in DOMAIN instance2index'
              /\ instance2index'[x] = instance2index[x]]_vars

\* C22's case: a word is added to an Alphabet that was constructed from a
\* word counter and opened again, and a word that was added twice is there
\* once.
C22_Witness ==
    /\ last.op = "add"
    /\ made.counted
    /\ made.toggled = "open"
    /\ Len(instances) = Len(ReservedTokens) + MaxWords + 1
    /\ instances[Len(instances)] = last.arg

\* The Alphabet is closed as the claim has it: close() was called last, or
\* neither open() nor close() since a construction with a word counter.
ClosedAsClaimed ==
    \/ made.toggled = "close"
    \/ made.toggled = "none" /\ made.counted

\* The Alphabet is open as the claim has it: open() was called last, or
\* neither since a construction without a word counter.
OpenAsClaimed ==
    \/ made.toggled = "open"
    \/ made.toggled = "none" /\ ~made.counted

\* Closed also by a construction with keep_growing = False.
ClosedInFact == ClosedAsClaimed \/ (made.toggled = "none" /\ ~made.keep_growing)

\* Open by open(), or by a construction without a word counter that left
\* keep_growing True.
OpenInFact ==
    \/ made.toggled = "open"
    \/ made.toggled = "none" /\ ~made.counted /\ made.keep_growing

\* What get_index of an unknown instance does on a closed Alphabet.
ClosedLookup ==
    /\ instance2index' = instance2index
    /\ instances' = instances
    /\ size(SelfAlphabet').ret = size(SelfAlphabet).ret
    /\ last'.ret =
          IF ignore_case_in_query
             /\ lower(last'.arg) \in DOMAIN instance2index
          THEN {instance2index[lower(last'.arg)]}
          ELSE {instance2index[UNK]}

\* What get_index of an unknown instance does on an open Alphabet.
OpenLookup ==
    /\ instances' = Append(instances, last'.arg)
    /\ last'.arg \in DOMAIN instance2index'
    /\ last'.ret = {instance2index'[last'.arg]}
    /\ last'.ret = {size(SelfAlphabet').ret - 1}

\* A get_index call of an instance that is not known.
UnknownLookup ==
    last'.op = "get_index" /\ last'.arg \notin DOMAIN instance2index

\* C23 as stated: closed after close() or a construction with a word
\* counter, open after open() or a construction without one.
C23_ClosedNeverGrows ==
    [][UnknownLookup =>
          /\ ClosedAsClaimed => ClosedLookup
          /\ OpenAsClaimed => OpenLookup]_vars

\* C23: while the Alphabet is closed (after close(), after a construction
\* with a word counter, or after a construction with keep_growing = False),
\* get_index of an unknown instance changes nothing and returns the index of
\* the lowercased form if ignore_case_in_query is set and that form is
\* known, unk_id otherwise; while it is open (after open(), or after a
\* construction without a word counter and with keep_growing = True), it
\* adds the instance and returns size() - 1.
C23_ClosedNeverGrowsByKeepGrowing ==
    [][/\ ClosedInFact <=> ~keep_growing
       /\ OpenInFact <=> keep_growing
       /\ UnknownLookup =>
             /\ ClosedInFact => ClosedLookup
             /\ OpenInFact => OpenLookup]_vars

\* C23's case: on an Alphabet closed by its construction from a word
\* counter, get_index of an unknown instance returned the index of its
\* lowercased form, which is not unk_id.
C23_Witness ==
    /\ last.op = "get_index"
    /\ made.counted
    /\ made.toggled = "none"
    /\ ~keep_growing
    /\ ignore_case_in_query
    /\ last.arg \notin DOMAIN instance2index
    /\ lower(last.arg) \in DOMAIN instance2index
    /\ last.ret = {instance2index[lower(last.arg)]}
    /\ last.ret # {instance2index[UNK]}

====
